---- MODULE Spec2Model ----
(***************************************************************************)
(* Model of the DatabaseBridge component                                   *)
(* (src/components/DatabaseBridge.tsx): the transcript producer            *)
(* (processNewData), the work queue (queueRef), the consumer loop          *)
(* (processQueueLoop) with its two polling waits, and the lifecycle effect *)
(* that re-runs on every connection change.                                *)
(*                                                                         *)
(* JavaScript runs each handler to its next await without interleaving, so *)
(* one action is one run-to-await stretch of a handler.  Times are in      *)
(* milliseconds.                                                           *)
(***************************************************************************)
EXTENDS Integers, Sequences, FiniteSets, TLC

\* ---- bounds of the model ------------------------------------------------
MaxLoops == 2        \* processQueueLoop executions that may be suspended at once
MaxSegments == 3     \* segments enqueued over a run
MaxLines == 3        \* lines of one diarized script
MaxUpdateId == 2     \* distinct transcript ids
MaxPending == 1      \* processNewData calls awaiting diarizeAndTranslate
MaxFetches == 1      \* fetchLatest calls in flight
MaxSubmissions == 3  \* primary synthesis requests over a run
MaxQueued == 8        \* queue elements numbered over a run of the filler variant
MaxTurns == 3         \* turns added to the log over a run
MaxFeeds == 1        \* the live session appends audio while fewer chunks were appended
MaxAnswerFeeds == 2  \* the same bound where the live session answers a fallback request
PollScale == 75      \* coarse timers: a 100ms sleep of Spec lasts PollScale * 100ms
AudioChunkMs == 4000 \* length of one audio payload appended to the buffer
PlaybackStepMs == 4000  \* audio played back between two observations of the buffer

\* ---- program constants ---------------------------------------------------
ARRIVAL_TIMEOUT_MS == 15000   \* while (Date.now() - waitStart < 15000)
ARRIVAL_POLL_MS == 100        \* setTimeout(resolve, 100)
EPSILON_MS == 100             \* preSendState.endOfQueueTime + 0.1
LOW_WATER_MS == 3000          \* state.duration < 3.0

LoopIds == 1..MaxLoops
UpdateIds == 1..MaxUpdateId
SegIds == 1..MaxSegments
QueuedIds == 1..MaxQueued
NoSeg == [seq |-> 0, text |-> ""]
SegTexts == {"Male 1: hi"}

VARIABLES
    status,           \* client.status: "connected" | "disconnected"
    connected,        \* the `connected` value of the last run of the effect
    isProcessing,     \* isProcessingRef.current
    queue,            \* queueRef.current: sequence of [seq, text]
    loops,            \* the suspended executions of processQueueLoop
    buffer,           \* the playback buffer: [endOfQueueTime, duration]
    lastProcessedId,  \* lastProcessedIdRef.current (0 = null)
    pending,          \* processNewData calls awaiting diarizeAndTranslate
    fetches,          \* fetchLatest calls awaiting supabase
    submitted,        \* history: the synthesis calls issued for each segment
    nextSeq,          \* history: sequence number of the next enqueued segment
    turns,            \* useLogStore.turns: sequence of [id, script]
    paragraphCount,   \* paragraphCountRef.current of the variant with fillers
    voiceStyle,       \* voiceStyleRef.current as the loop of the variant with styles
                      \* reads it; DatabaseBridge.tsx never reads the ref, which is
                      \* the style "natural" that leaves the text as it is
    styleAtEnqueue    \* history: the voice style in force when the element was pushed

vars == <<status, connected, isProcessing, queue, loops, buffer, lastProcessedId,
          pending, fetches, submitted, nextSeq, turns, paragraphCount,
                   voiceStyle, styleAtEnqueue>>

\* An execution of processQueueLoop between two awaits: where it is suspended
\* (pc), its locals scriptedText (seg), preSendState.endOfQueueTime (pre),
\* Date.now() - waitStart at its last reading (elapsed) and audioArrived, and
\* two history fields: the poll cycles of its arrival wait (polls) and
\* whether the connection was lost since it entered (cancelled).
IdleLoop == [pc |-> "idle", seg |-> NoSeg, scripted |-> <<>>, pre |-> 0, elapsed |-> 0,
             audioArrived |-> FALSE, polls |-> 0, cancelled |-> FALSE]

Active(l) == loops[l].pc # "idle"
ActiveLoops == {l \in LoopIds : Active(l)}

Min(S) == CHOOSE x \in S : \A y \in S : x <= y
FreeSlot(ls) == Min({l \in LoopIds : ls[l].pc = "idle"})
HasFreeSlot(ls) == \E l \in LoopIds : ls[l].pc = "idle"

\* state.ts line 15: the voice styles
VoiceStyles == {"natural", "breathy", "dramatic"}

CLEARS_THROAT == "(clears throat)"

\* part_001 lines 144-154: the text submitted for the head element rawText
\* under the style read from voiceStyleRef.current; a text with its lead-in
\* and pause markers is the sequence of its parts
scriptedText(style, rawText) ==
    IF rawText # CLEARS_THROAT
    THEN IF style = "breathy" THEN <<"(soft inhale) ", rawText, " ... (pause)">>
         ELSE IF style = "dramatic" THEN <<"(slowly) ", rawText, " ... (long pause)">>
         ELSE <<rawText>>
    ELSE <<rawText>>

\* String.prototype.trim() of a segment leaves nothing
Blank(text) == text = ""

\* segmentText: the non-empty trimmed lines of the script, in order.  A script
\* is modelled as the sequence of its lines.
RECURSIVE segmentText(_)
segmentText(lines) ==
    IF lines = <<>> THEN <<>>
    ELSE IF Blank(Head(lines)) THEN segmentText(Tail(lines))
    ELSE <<Head(lines)>> \o segmentText(Tail(lines))

\* getAudioStreamerState(): a snapshot of the playback buffer
getAudioStreamerState(b) == b

\* feedAudio: append one decoded payload to the playback buffer
feedAudio(b) ==
    [endOfQueueTime |-> b.endOfQueueTime + AudioChunkMs,
     duration |-> b.duration + AudioChunkMs]

\* the bound of the model on the audio appended by the live session
CanFeed(b) == b.endOfQueueTime < MaxFeeds * AudioChunkMs

\* line 176: has endOfQueueTime advanced past the baseline by more than 0.1s
AudioArrived(b, pre) == getAudioStreamerState(b).endOfQueueTime > pre + EPSILON_MS

\* the timeout compared with <= for <
WithinTimeoutInclusive(elapsed) == elapsed <= ARRIVAL_TIMEOUT_MS

\* line 174: the arrival wait goes on
WithinTimeout(elapsed) == elapsed < ARRIVAL_TIMEOUT_MS

\* the low-water test with > for <
BelowLowWaterInverted(b) == getAudioStreamerState(b).duration > LOW_WATER_MS

\* line 189: the pipelining wait ends
BelowLowWater(b) == getAudioStreamerState(b).duration < LOW_WATER_MS

\* line 145: the connection check at the top of an iteration
ConnectionLost(st) == st # "connected"

(***************************************************************************)
(* A machine state m = [isProcessing, queue, loops, submitted] is threaded *)
(* through the synchronous stretches of processQueueLoop.                  *)
(***************************************************************************)
Machine == [isProcessing |-> isProcessing, queue |-> queue, loops |-> loops,
            submitted |-> submitted, voiceStyle |-> voiceStyle]

\* an exit of the loop that leaves the flag set
ExitLoopKeepFlag(l, m) ==
    [m EXCEPT !.loops[l] = IdleLoop]

\* lines 146-147 and 195-196: every exit of the loop clears the flag
ExitLoop(l, m) ==
    [m EXCEPT !.isProcessing = FALSE, !.loops[l] = IdleLoop]

\* pop() for shift(): the last element is removed
ShiftLast(q) == IF q = <<>> THEN q ELSE SubSeq(q, 1, Len(q) - 1)

\* line 169: queueRef.current.shift() (no effect on an empty array)
Shift(q) == IF q = <<>> THEN q ELSE Tail(q)

\* lines 157-161: capture preSendState and call the primary adapter
Dispatch(l, m, b) ==
    [m EXCEPT !.loops[l] = [pc |-> "synth", seg |-> Head(m.queue),
                            scripted |-> scriptedText(m.voiceStyle, Head(m.queue).text),
                            pre |-> getAudioStreamerState(b).endOfQueueTime,
                            elapsed |-> 0, audioArrived |-> FALSE, polls |-> 0,
                            cancelled |-> m.loops[l].cancelled],
              !.submitted[Head(m.queue).seq].primary = @ + 1]

\* lines 144-161: the top of the while loop, up to the await of the call
RECURSIVE Iterate(_, _, _, _)
Iterate(l, m, st, b) ==
    IF m.queue = <<>> THEN ExitLoop(l, m)
    ELSE IF ConnectionLost(st) THEN ExitLoop(l, m)
    ELSE IF Blank(Head(m.queue).text)
         THEN Iterate(l, [m EXCEPT !.queue = Shift(@)], st, b)
    ELSE Dispatch(l, m, b)

\* lines 139-142: the entry check and the start of an execution in slot l
processQueueLoop(l, m, st, b) ==
    IF m.isProcessing THEN m
    ELSE Iterate(l, [m EXCEPT !.isProcessing = TRUE,
                              !.loops[l] = [IdleLoop EXCEPT !.pc = "entered"]], st, b)

\* lines 187-192: one cycle of the pipelining wait
PipelineCycle(l, m, st, b) ==
    IF BelowLowWater(b) THEN Iterate(l, m, st, b)
    ELSE [m EXCEPT !.loops[l].pc = "pipeline"]

\* lines 174-185: one cycle of the arrival wait, the clock reading `elapsed`
ArrivalCycle(l, m, st, b, elapsed) ==
    LET now == [m EXCEPT !.loops[l].elapsed = elapsed]
        polled == [now EXCEPT !.loops[l].polls = @ + 1]
    IN  IF WithinTimeout(elapsed)
        THEN IF AudioArrived(b, m.loops[l].pre)
             THEN PipelineCycle(l, [polled EXCEPT !.loops[l].audioArrived = TRUE], st, b)
             ELSE [polled EXCEPT !.loops[l].pc = "arrival"]
        ELSE PipelineCycle(l, now, st, b)

\* lines 169-172: pop the head and start the arrival wait
AfterSubmit(l, m, st, b) ==
    ArrivalCycle(l, [m EXCEPT !.queue = Shift(@)], st, b, 0)

RECURSIVE SumTo(_, _)
SumTo(f, n) == IF n = 0 THEN 0 ELSE f[n] + SumTo(f, n - 1)

\* the primary synthesis requests issued so far
PrimaryCalls(log) == SumTo([s \in QueuedIds |-> log[s].primary], MaxQueued)

\* The step's result becomes the next state (within the bound on requests)
Commit(m) ==
    /\ PrimaryCalls(m.submitted) <= MaxSubmissions
    /\ isProcessing' = m.isProcessing
    /\ queue' = m.queue
    /\ loops' = m.loops
    /\ submitted' = m.submitted


Init ==
    /\ status = "disconnected"
    /\ connected = FALSE
    /\ isProcessing = FALSE
    /\ queue = <<>>
    /\ loops = [l \in LoopIds |-> IdleLoop]
    /\ buffer = [endOfQueueTime |-> 0, duration |-> 0]
    /\ lastProcessedId = 0
    /\ pending = <<>>
    /\ fetches = 0
    /\ submitted = [s \in QueuedIds |-> [primary |-> 0, fallback |-> 0]]
    /\ nextSeq = 1
    /\ turns = <<>>
    /\ paragraphCount = 0
    /\ voiceStyle = "natural"
    /\ styleAtEnqueue = [s \in QueuedIds |-> "none"]

\* A call of processQueueLoop() from a trigger: it needs a slot of the model
\* only when it passes the entry check.
CanCall(m) == m.isProcessing \/ HasFreeSlot(m.loops)
CallLoop(m, st, b) ==
    IF m.isProcessing THEN m ELSE processQueueLoop(FreeSlot(m.loops), m, st, b)

(***************************************************************************)
(* The lifecycle effect (lines 131-137, 200-202, 249-277): it runs on      *)
(* every change of `connected`; the cleanup of the previous run ends the   *)
(* worker and the subscription.                                            *)
(***************************************************************************)
\* the effect without the start of the loop of lines 200-202
EffectBodyNoStart(c, m, b) ==
    [m EXCEPT !.isProcessing = FALSE]

EffectBody(c, m, b) ==
    LET reset == [m EXCEPT !.isProcessing = FALSE]
    IN  IF ~c THEN reset
        ELSE IF reset.queue # <<>> THEN CallLoop(reset, "connected", b)
        ELSE reset

ConnectionChange(c) ==
    /\ c # connected
    /\ LET marked == [l \in LoopIds |->
                        IF Active(l) /\ ~c THEN [loops[l] EXCEPT !.cancelled = TRUE]
                        ELSE loops[l]]
           m0 == [Machine EXCEPT !.loops = marked]
       IN  /\ (c /\ queue # <<>>) => CanCall([m0 EXCEPT !.isProcessing = FALSE])
           /\ Commit(EffectBody(c, m0, buffer))
    /\ status' = IF c THEN "connected" ELSE "disconnected"
    /\ connected' = c
    /\ fetches' = IF c /\ fetches < MaxFetches THEN fetches + 1 ELSE fetches
    /\ UNCHANGED <<buffer, lastProcessedId, pending, nextSeq, turns, paragraphCount,
                   voiceStyle, styleAtEnqueue>>


(***************************************************************************)
(* The producer (lines 204-271)                                            *)
(***************************************************************************)
\* The diarized scripts, as sequences of lines: a trimmed, non-empty text
\* neither starts nor ends with a blank line.
Scripts ==
    {s \in UNION {[1..n -> SegTexts \cup {""}] : n \in 1..MaxLines} :
        ~Blank(s[1]) /\ ~Blank(s[Len(s)])}

\* state.ts lines 205-208: addTurn appends a turn; a turn is [id, script]: the
\* update it was added for and the update whose diarized script is its text
\* (0 = the raw source text)
addTurn(ts, id) == Append(ts, [id |-> id, script |-> 0])

\* state.ts lines 209-219: updateLastTurn merges the update into the last
\* turn, and changes nothing when there is no turn
updateLastTurn(ts, id) ==
    IF Len(ts) = 0 THEN ts ELSE [ts EXCEPT ![Len(ts)].script = id]

\* the gate with the test on `source` left out
AcceptsAnyText(data) == lastProcessedId # data.id

\* lines 204-221: the gate on `source` and on the id, up to the await of
\* diarizeAndTranslate.  data = [id, empty].
Accepts(data) == ~data.empty /\ lastProcessedId # data.id

processNewData(data) ==
    IF Accepts(data)
    THEN /\ Len(pending) < MaxPending
         /\ Len(turns) < MaxTurns
         /\ lastProcessedId' = data.id
         /\ turns' = addTurn(turns, data.id)
         /\ pending' = Append(pending, [id |-> data.id])
    ELSE UNCHANGED <<lastProcessedId, turns, pending>>

Updates == [id : UpdateIds, empty : BOOLEAN]

\* lines 258-269: a change notification of the realtime subscription
PushEvent(data) ==
    /\ connected
    /\ processNewData(data)
    /\ UNCHANGED <<status, connected, isProcessing, queue, loops, buffer, fetches,
                   submitted, nextSeq, paragraphCount,
                   voiceStyle, styleAtEnqueue>>

\* lines 252-254: a tick of the polling worker calls fetchLatest
WorkerTick ==
    /\ connected
    /\ fetches < MaxFetches
    /\ fetches' = fetches + 1
    /\ UNCHANGED <<status, connected, isProcessing, queue, loops, buffer,
                   lastProcessedId, pending, submitted, nextSeq, turns, paragraphCount,
                   voiceStyle, styleAtEnqueue>>

\* lines 236-247: the query of fetchLatest returns a row
FetchReturn(data) ==
    /\ fetches > 0
    /\ fetches' = fetches - 1
    /\ processNewData(data)
    /\ UNCHANGED <<status, connected, isProcessing, queue, loops, buffer,
                   submitted, nextSeq, paragraphCount,
                   voiceStyle, styleAtEnqueue>>

\* lines 244: the query of fetchLatest returns an error or no row
FetchFail ==
    /\ fetches > 0
    /\ fetches' = fetches - 1
    /\ UNCHANGED <<status, connected, isProcessing, queue, loops, buffer,
                   lastProcessedId, pending, submitted, nextSeq, turns, paragraphCount,
                   voiceStyle, styleAtEnqueue>>

\* the segments are put at the front of the queue (unshift for push)
RECURSIVE PushAllFront(_, _, _)
PushAllFront(q, segs, n) ==
    IF segs = <<>> THEN q
    ELSE PushAllFront(<<[seq |-> n, text |-> Head(segs)]>> \o q, Tail(segs), n + 1)

\* each segment is spliced in before the last element of the queue
RECURSIVE PushAllBeforeLast(_, _, _)
PushAllBeforeLast(q, segs, n) ==
    IF segs = <<>> THEN q
    ELSE PushAllBeforeLast(
             IF q = <<>> THEN <<[seq |-> n, text |-> Head(segs)]>>
             ELSE SubSeq(q, 1, Len(q) - 1)
                      \o <<[seq |-> n, text |-> Head(segs)], q[Len(q)]>>,
             Tail(segs), n + 1)

\* lines 229-231: push the segments at the tail, numbered from n
RECURSIVE PushAll(_, _, _)
PushAll(q, segs, n) ==
    IF segs = <<>> THEN q
    ELSE PushAll(Append(q, [seq |-> n, text |-> Head(segs)]), Tail(segs), n + 1)

\* lines 221-233: diarizeAndTranslate of the i-th pending call returns `script`
DiarizeReturn(i, script) ==
    /\ i \in 1..Len(pending)
    /\ LET segments == segmentText(script)
           m0 == [Machine EXCEPT !.queue = PushAll(@, segments, nextSeq)]
       IN  /\ nextSeq + Len(segments) - 1 <= MaxSegments
           /\ nextSeq' = nextSeq + Len(segments)
           /\ IF Len(segments) > 0
              THEN /\ CanCall(m0)
                   /\ Commit(CallLoop(m0, status, buffer))
              ELSE Commit(m0)
    /\ pending' = [j \in 1..(Len(pending) - 1) |->
                      IF j < i THEN pending[j] ELSE pending[j + 1]]
    /\ turns' = updateLastTurn(turns, pending[i].id)
    /\ UNCHANGED <<status, connected, buffer, lastProcessedId, fetches, paragraphCount,
                   voiceStyle, styleAtEnqueue>>

(***************************************************************************)
(* The consumer loop resumed from its awaits                               *)
(***************************************************************************)
\* lines 118-123, 161, 169-192: the primary call returns audio; it is fed to
\* the playback buffer, the head is popped and the waits begin
SynthSuccess(l) ==
    /\ loops[l].pc = "synth"
    /\ buffer' = feedAudio(buffer)
    /\ LET m == AfterSubmit(l, Machine, status, buffer')
       IN  Commit(m)
    /\ UNCHANGED <<status, connected, lastProcessedId, pending, fetches, nextSeq, turns, paragraphCount,
                   voiceStyle, styleAtEnqueue>>

\* lines 163-167: the fallback request is issued
Fallback(l, m) ==
    [m EXCEPT !.submitted[m.loops[l].seg.seq].fallback = @ + 1]

\* the primary call fails and no fallback is sent
SynthFailureSilent(l) ==
    /\ loops[l].pc = "synth"
    /\ LET m == AfterSubmit(l, Machine, status, buffer)
       IN  Commit(m)
    /\ UNCHANGED <<status, connected, buffer, lastProcessedId, pending, fetches,
                   nextSeq, turns, paragraphCount,
                   voiceStyle, styleAtEnqueue>>

\* lines 124-127, 161-192: the primary call fails; the fallback is sent, the
\* head is popped and the waits begin
SynthFailure(l) ==
    /\ loops[l].pc = "synth"
    /\ LET m == AfterSubmit(l, Fallback(l, Machine), status, buffer)
       IN  Commit(m)
    /\ UNCHANGED <<status, connected, buffer, lastProcessedId, pending, fetches,
                   nextSeq, turns, paragraphCount,
                   voiceStyle, styleAtEnqueue>>

\* lines 166, 193-197: the fallback send throws; catch and finally end the loop
FallbackThrows(l) ==
    /\ loops[l].pc = "synth"
    /\ Commit(ExitLoop(l, Fallback(l, Machine)))
    /\ UNCHANGED <<status, connected, buffer, lastProcessedId, pending, fetches,
                   nextSeq, turns, paragraphCount,
                   voiceStyle, styleAtEnqueue>>

\* lines 174-181: the 100ms sleep of the arrival wait ends, `scale` sleeps late
ArrivalWake(l, scale) ==
    /\ loops[l].pc = "arrival"
    /\ LET m == ArrivalCycle(l, Machine, status, buffer,
                             loops[l].elapsed + ARRIVAL_POLL_MS * scale)
       IN  Commit(m)
    /\ UNCHANGED <<status, connected, buffer, lastProcessedId, pending, fetches,
                   nextSeq, turns, paragraphCount,
                   voiceStyle, styleAtEnqueue>>

\* lines 187-191: the 200ms sleep of the pipelining wait ends
PipelineWake(l) ==
    /\ loops[l].pc = "pipeline"
    /\ LET m == PipelineCycle(l, Machine, status, buffer)
       IN  Commit(m)
    /\ UNCHANGED <<status, connected, buffer, lastProcessedId, pending, fetches,
                   nextSeq, turns, paragraphCount,
                   voiceStyle, styleAtEnqueue>>

(***************************************************************************)
(* The playback buffer                                                     *)
(***************************************************************************)
\* playback consumes buffered audio
Playback ==
    /\ buffer.duration > 0
    /\ buffer' = [buffer EXCEPT !.duration =
                     IF @ > PlaybackStepMs THEN @ - PlaybackStepMs ELSE 0]
    /\ UNCHANGED <<status, connected, isProcessing, queue, loops, lastProcessedId,
                   pending, fetches, submitted, nextSeq, turns, paragraphCount,
                   voiceStyle, styleAtEnqueue>>

\* audio of the live session (the answer to a fallback request) is appended
LiveAudio ==
    /\ CanFeed(buffer)
    /\ buffer' = feedAudio(buffer)
    /\ UNCHANGED <<status, connected, isProcessing, queue, loops, lastProcessedId,
                   pending, fetches, submitted, nextSeq, turns, paragraphCount,
                   voiceStyle, styleAtEnqueue>>

Next ==
    \/ \E c \in BOOLEAN : ConnectionChange(c)
    \/ \E data \in Updates : PushEvent(data)
    \/ WorkerTick
    \/ \E data \in Updates : FetchReturn(data)
    \/ FetchFail
    \/ \E i \in 1..MaxPending, script \in Scripts : DiarizeReturn(i, script)
    \/ \E l \in LoopIds : SynthSuccess(l)
    \/ \E l \in LoopIds : SynthFailure(l)
    \/ \E l \in LoopIds : FallbackThrows(l)
    \/ \E l \in LoopIds : ArrivalWake(l, PollScale)
    \/ \E l \in LoopIds : PipelineWake(l)
    \/ Playback
    \/ LiveAudio

Spec == Init /\ [][Next]_vars

(***************************************************************************)
(* The pipeline with a connection that stays up once established, under    *)
(* the fairness the event loop gives: a timer that was set fires, and an   *)
(* awaited synthesis call settles (the adapter has its own timeout).  The  *)
(* playback buffer and the transcript source are not under the program's   *)
(* control and get no fairness.                                            *)
(***************************************************************************)
NextLive ==
    \/ ConnectionChange(TRUE)
    \/ \E data \in Updates : PushEvent(data)
    \/ WorkerTick
    \/ \E data \in Updates : FetchReturn(data)
    \/ FetchFail
    \/ \E i \in 1..MaxPending, script \in Scripts : DiarizeReturn(i, script)
    \/ \E l \in LoopIds : SynthSuccess(l)
    \/ \E l \in LoopIds : SynthFailure(l)
    \/ \E l \in LoopIds : FallbackThrows(l)
    \/ \E l \in LoopIds : ArrivalWake(l, PollScale)
    \/ \E l \in LoopIds : PipelineWake(l)
    \/ Playback
    \/ LiveAudio

SynthReturns(l) == SynthSuccess(l) \/ SynthFailure(l) \/ FallbackThrows(l)

FairSpec ==
    /\ Init
    /\ [][NextLive]_vars
    /\ \A l \in LoopIds : WF_vars(SynthReturns(l))
    /\ \A l \in LoopIds : WF_vars(ArrivalWake(l, PollScale))
    /\ \A l \in LoopIds : WF_vars(PipelineWake(l))
    /\ \A i \in 1..MaxPending : WF_vars(\E script \in Scripts : DiarizeReturn(i, script))

(***************************************************************************)
(* The arrival wait with timers that fire on time (every sleep lasts       *)
(* 100ms), from the moment the first update was accepted on an established *)
(* connection.                                                             *)
(***************************************************************************)
InitArrival ==
    /\ status = "connected"
    /\ connected = TRUE
    /\ isProcessing = FALSE
    /\ queue = <<>>
    /\ loops = [l \in LoopIds |-> IdleLoop]
    /\ buffer = [endOfQueueTime |-> 0, duration |-> 0]
    /\ lastProcessedId = 1
    /\ pending = <<[id |-> 1]>>
    /\ fetches = 0
    /\ submitted = [s \in QueuedIds |-> [primary |-> 0, fallback |-> 0]]
    /\ nextSeq = 1
    /\ turns = <<[id |-> 1, script |-> 0]>>
    /\ paragraphCount = 0
    /\ voiceStyle = "natural"
    /\ styleAtEnqueue = [s \in QueuedIds |-> "none"]

NextArrival ==
    \/ ConnectionChange(FALSE)
    \/ \E i \in 1..MaxPending, script \in Scripts : DiarizeReturn(i, script)
    \/ \E l \in LoopIds : SynthSuccess(l)
    \/ \E l \in LoopIds : SynthFailure(l)
    \/ \E l \in LoopIds : FallbackThrows(l)
    \/ \E l \in LoopIds : ArrivalWake(l, 1)
    \/ \E l \in LoopIds : PipelineWake(l)
    \/ Playback
    \/ LiveAudio

SpecArrival == InitArrival /\ [][NextArrival]_vars

(***************************************************************************)
(* The pipeline on a connection that stays up, with a synthesis adapter    *)
(* that always returns audio: no fallback request is sent, so the live     *)
(* session appends no audio, and every arrival wait ends at its first      *)
(* check.  Timers fire, the awaited call settles and the playback buffer   *)
(* drains.                                                                 *)
(***************************************************************************)
NextDrain ==
    \/ ConnectionChange(TRUE)
    \/ \E data \in Updates : PushEvent(data)
    \/ WorkerTick
    \/ \E data \in Updates : FetchReturn(data)
    \/ FetchFail
    \/ \E i \in 1..MaxPending, script \in Scripts : DiarizeReturn(i, script)
    \/ \E l \in LoopIds : SynthSuccess(l)
    \/ \E l \in LoopIds : PipelineWake(l)
    \/ Playback

SpecDrain ==
    /\ Init
    /\ [][NextDrain]_vars
    /\ \A l \in LoopIds : WF_vars(SynthSuccess(l))
    /\ \A l \in LoopIds : WF_vars(PipelineWake(l))
    /\ WF_vars(Playback)

(***************************************************************************)
(* The same pipeline with a synthesis adapter that fails for the segment   *)
(* enqueued second (B of a queue [A, B, C]) and returns audio for every    *)
(* other one.  The fallback send itself succeeds; the live session may or  *)
(* may not answer it with audio.                                           *)
(***************************************************************************)
FailsFor(seg) == seg.seq = 2

\* audio of the live session, the answer to the fallback request, is appended
LiveAnswer ==
    /\ buffer.endOfQueueTime < MaxAnswerFeeds * AudioChunkMs
    /\ buffer' = feedAudio(buffer)
    /\ UNCHANGED <<status, connected, isProcessing, queue, loops, lastProcessedId,
                   pending, fetches, submitted, nextSeq, turns, paragraphCount,
                   voiceStyle, styleAtEnqueue>>

SynthReturnsOneFailure(l) ==
    IF FailsFor(loops[l].seg) THEN SynthFailure(l) ELSE SynthSuccess(l)

NextOneFailure ==
    \/ ConnectionChange(TRUE)
    \/ \E data \in Updates : PushEvent(data)
    \/ WorkerTick
    \/ \E data \in Updates : FetchReturn(data)
    \/ FetchFail
    \/ \E i \in 1..MaxPending, script \in Scripts : DiarizeReturn(i, script)
    \/ \E l \in LoopIds : SynthReturnsOneFailure(l)
    \/ \E l \in LoopIds : ArrivalWake(l, PollScale)
    \/ \E l \in LoopIds : PipelineWake(l)
    \/ Playback
    \/ LiveAnswer

SpecOneFailure ==
    /\ Init
    /\ [][NextOneFailure]_vars
    /\ \A l \in LoopIds : WF_vars(SynthReturnsOneFailure(l))
    /\ \A l \in LoopIds : WF_vars(ArrivalWake(l, PollScale))
    /\ \A l \in LoopIds : WF_vars(PipelineWake(l))
    /\ WF_vars(Playback)

(***************************************************************************)
(* The variant of the component with fillers (src/unnamed/part_001): its   *)
(* processNewData is synchronous, segments the raw source text and pushes  *)
(* a filler after every third paragraph, counted by paragraphCountRef.     *)
(* Its consumer loop has the control flow of the loop above.               *)
(***************************************************************************)
Paragraphs == {"a", "b"}

\* the source texts, as sequences of lines
Sources == UNION {[1..n -> Paragraphs \cup {""}] : n \in 1..MaxLines}

\* the counter starts again with every call
RECURSIVE pushParagraphsPerCall(_, _, _, _)
pushParagraphsPerCall(q, segs, n, count) ==
    IF segs = <<>> THEN [queue |-> q, n |-> n, count |-> 0]
    ELSE LET q1 == Append(q, [seq |-> n, text |-> Head(segs)])
             c1 == count + 1
         IN  IF c1 > 0 /\ c1 % 3 = 0
             THEN pushParagraphsPerCall(Append(q1, [seq |-> n + 1, text |-> CLEARS_THROAT]),
                                        Tail(segs), n + 2, c1)
             ELSE pushParagraphsPerCall(q1, Tail(segs), n + 1, c1)

\* part_001 lines 238-246: push each segment, count it, and push the filler
\* when the count is a multiple of 3; elements are numbered from n
RECURSIVE pushParagraphs(_, _, _, _)
pushParagraphs(q, segs, n, count) ==
    IF segs = <<>> THEN [queue |-> q, n |-> n, count |-> count]
    ELSE LET q1 == Append(q, [seq |-> n, text |-> Head(segs)])
             c1 == count + 1
         IN  IF c1 > 0 /\ c1 % 3 = 0
             THEN pushParagraphs(Append(q1, [seq |-> n + 1, text |-> CLEARS_THROAT]),
                                 Tail(segs), n + 2, c1)
             ELSE pushParagraphs(q1, Tail(segs), n + 1, c1)

\* part_001 lines 221-248: the gate, the turn, the segments with fillers and
\* the call of processQueueLoop
processNewDataFiller(data, source) ==
    IF Accepts(data)
    THEN LET segments == segmentText(source)
             r == pushParagraphs(queue, segments, nextSeq, paragraphCount)
             m0 == [Machine EXCEPT !.queue = r.queue]
         IN  /\ Len(turns) < MaxTurns
             /\ r.n - 1 <= MaxQueued
             /\ lastProcessedId' = data.id
             /\ turns' = addTurn(turns, data.id)
             /\ nextSeq' = r.n
             /\ paragraphCount' = r.count
             /\ styleAtEnqueue' = [s \in QueuedIds |->
                    IF nextSeq <= s /\ s < r.n THEN voiceStyle ELSE styleAtEnqueue[s]]
             /\ IF Len(segments) > 0
                THEN /\ CanCall(m0)
                     /\ Commit(CallLoop(m0, status, buffer))
                ELSE Commit(m0)
    ELSE UNCHANGED <<lastProcessedId, turns, nextSeq, paragraphCount, styleAtEnqueue,
                     isProcessing, queue, loops, submitted>>

\* part_001: a change notification of the realtime subscription
PushEventFiller(data, source) ==
    /\ connected
    /\ processNewDataFiller(data, source)
    /\ UNCHANGED <<status, connected, buffer, pending, fetches, voiceStyle>>

NextFiller ==
    \/ ConnectionChange(TRUE)
    \/ \E data \in Updates, source \in Sources : PushEventFiller(data, source)
    \/ \E l \in LoopIds : SynthSuccess(l)
    \/ \E l \in LoopIds : PipelineWake(l)
    \/ Playback

SpecFiller == Init /\ [][NextFiller]_vars

(***************************************************************************)
(* The variant with voice styles (src/unnamed/part_001): the setting is    *)
(* copied into voiceStyleRef by an effect whenever it changes, and the     *)
(* loop reads the ref when it dispatches the head element.  The component  *)
(* mounts with the default of the settings store.                          *)
(***************************************************************************)
\* state.ts line 65: the default voice style
DefaultVoiceStyle == "breathy"

InitVoice ==
    /\ status = "disconnected"
    /\ connected = FALSE
    /\ isProcessing = FALSE
    /\ queue = <<>>
    /\ loops = [l \in LoopIds |-> IdleLoop]
    /\ buffer = [endOfQueueTime |-> 0, duration |-> 0]
    /\ lastProcessedId = 0
    /\ pending = <<>>
    /\ fetches = 0
    /\ submitted = [s \in QueuedIds |-> [primary |-> 0, fallback |-> 0]]
    /\ nextSeq = 1
    /\ turns = <<>>
    /\ paragraphCount = 0
    /\ voiceStyle = DefaultVoiceStyle
    /\ styleAtEnqueue = [s \in QueuedIds |-> "none"]

\* the source texts of this specification: one or two paragraphs
VoiceSources == {<<"a">>, <<"a", "b">>}

\* part_001 lines 44-46: the setting changed and the effect stores it
SetVoiceStyle(style) ==
    /\ style # voiceStyle
    /\ voiceStyle' = style
    /\ UNCHANGED <<status, connected, isProcessing, queue, loops, buffer,
                   lastProcessedId, pending, fetches, submitted, nextSeq, turns,
                   paragraphCount, styleAtEnqueue>>

NextVoice ==
    \/ ConnectionChange(TRUE)
    \/ \E data \in Updates, source \in VoiceSources : PushEventFiller(data, source)
    \/ \E style \in VoiceStyles : SetVoiceStyle(style)
    \/ \E l \in LoopIds : SynthSuccess(l)
    \/ \E l \in LoopIds : PipelineWake(l)
    \/ Playback

SpecVoice == InitVoice /\ [][NextVoice]_vars

(***************************************************************************)
(* Two updates in flight: on an established connection the updates 1 and 2 *)
(* were accepted in this order (each call of processNewData added its turn *)
(* and now awaits diarizeAndTranslate); the two calls return in either     *)
(* order.  The script of an update is made of that update's text, so the   *)
(* texts in the queue tell which update an element came from.              *)
(***************************************************************************)
MaxInFlight == 2

\* lines 60-83: the lines diarizeAndTranslate returns for the update `id`
SegTextOf(id) == IF id = 1 THEN "Male 1: one" ELSE "Male 1: two"

\* the diarized script of an update has one or two lines
ScriptsOf(id) == {<<SegTextOf(id)>>, <<SegTextOf(id), SegTextOf(id)>>}

InitInFlight ==
    /\ status = "connected"
    /\ connected = TRUE
    /\ isProcessing = FALSE
    /\ queue = <<>>
    /\ loops = [l \in LoopIds |-> IdleLoop]
    /\ buffer = [endOfQueueTime |-> 0, duration |-> 0]
    /\ lastProcessedId = 2
    /\ pending = <<[id |-> 1], [id |-> 2]>>
    /\ fetches = 0
    /\ submitted = [s \in QueuedIds |-> [primary |-> 0, fallback |-> 0]]
    /\ nextSeq = 1
    /\ turns = addTurn(addTurn(<<>>, 1), 2)
    /\ paragraphCount = 0
    /\ voiceStyle = "natural"
    /\ styleAtEnqueue = [s \in QueuedIds |-> "none"]

\* lines 221-233: the i-th pending call gets the script of its own update
DiarizeReturnOf(i) ==
    /\ i <= Len(pending)
    /\ \E script \in ScriptsOf(pending[i].id) : DiarizeReturn(i, script)

NextInFlight ==
    \/ \E i \in 1..MaxInFlight : DiarizeReturnOf(i)
    \/ \E l \in LoopIds : SynthSuccess(l)
    \/ \E l \in LoopIds : SynthFailure(l)
    \/ \E l \in LoopIds : ArrivalWake(l, PollScale)
    \/ \E l \in LoopIds : PipelineWake(l)
    \/ Playback
    \/ LiveAudio

SpecInFlight == InitInFlight /\ [][NextInFlight]_vars

(***************************************************************************)
(* The claims                                                              *)
(***************************************************************************)
InQueue(s) == \E i \in 1..Len(queue) : queue[i].seq = s
Submissions(s) == submitted[s].primary + submitted[s].fallback

\* C1: in every reachable state at most one execution of processQueueLoop
\* is active (entered and not yet exited).
C1_SingleActiveLoop == Cardinality(ActiveLoops) <= 1

\* C2: while an execution that entered since the last connection change is
\* active, a step without a connection change (a further start trigger)
\* makes no other execution active.
C2_OneStartWins ==
    [][((\E l \in LoopIds : Active(l) /\ ~loops[l].cancelled) /\ connected' = connected)
        => \A l \in LoopIds : ~Active(l) => loops'[l].pc = "idle"]_vars

\* C3: the requests to the synthesis provider follow the order of the queue:
\* when the primary adapter is called for a segment, it was not called yet
\* for any segment enqueued after it.
C3_SubmittedInQueueOrder ==
    [][\A s \in SegIds :
        submitted'[s].primary > submitted[s].primary
            => \A t \in SegIds : t > s => submitted[t].primary = 0]_vars

\* C3 witness: two executions are active at once, and the segments enqueued
\* first and second were both submitted.
C3_Witness ==
    /\ Cardinality(ActiveLoops) = 2
    /\ submitted[1].primary > 0
    /\ submitted[2].primary > 0

\* C4: every segment is submitted to the primary adapter at most once.
C4_AtMostOncePrimary == \A s \in SegIds : submitted[s].primary <= 1

\* C5: a segment leaves the queue only if it is blank or is the segment that
\* the execution removing it has just submitted.
C5_NoSkipping ==
    [][\A s \in SegIds :
        (InQueue(s) /\ ~InQueue(s)')
            => \/ \E i \in 1..Len(queue) : queue[i].seq = s /\ Blank(queue[i].text)
               \/ \E l \in LoopIds : /\ loops[l].pc = "synth"
                                     /\ loops[l].seg.seq = s
                                     /\ loops'[l] # loops[l]]_vars

\* C6: while the connection stays up, every queued segment is eventually
\* removed from the queue.
C6_EverySegmentLeaves ==
    \A s \in SegIds : (InQueue(s) /\ connected) ~> (~InQueue(s) \/ ~connected)

\* C7: the pipelining wait of an execution always ends.
C7_PipeliningWaitEnds ==
    \A l \in LoopIds : (loops[l].pc = "pipeline") ~> (loops[l].pc # "pipeline")

\* C8: the arrival wait ends only on arrival or on the timeout, after at most
\* 150 poll cycles, and on the timeout the execution goes on: to the
\* pipelining wait, or past it to the next queued segment (leaving the loop
\* when the queue is empty or the connection is lost).
ArrivalMaxPolls == ARRIVAL_TIMEOUT_MS \div ARRIVAL_POLL_MS

GoesOn(l) ==
    IF ~BelowLowWater(buffer) THEN loops'[l].pc = "pipeline"
    ELSE IF queue # <<>> /\ status = "connected"
         THEN loops'[l].pc = "synth" /\ loops'[l].seg = Head(queue)
         ELSE loops'[l].pc = "idle"

C8_ArrivalWaitBounded ==
    [][\A l \in LoopIds :
        /\ loops'[l].pc = "arrival" => loops'[l].polls <= ArrivalMaxPolls
        /\ (loops[l].pc = "arrival" /\ loops'[l].pc # "arrival")
            => /\ \/ AudioArrived(buffer, loops[l].pre)
                  \/ loops[l].elapsed + ARRIVAL_POLL_MS >= ARRIVAL_TIMEOUT_MS
               /\ GoesOn(l)]_vars

\* C8 witness: an execution whose arrival wait timed out after 150 polls
\* without arrival is in the pipelining wait.
C8_Witness ==
    \E l \in LoopIds :
        /\ loops[l].pc = "pipeline"
        /\ ~loops[l].audioArrived
        /\ loops[l].polls = ArrivalMaxPolls

\* C9: an execution that saw the connection lost issues no further synthesis
\* call, and isProcessing is false when it has exited.
C9_NoCallAfterDisconnect ==
    [][\A l \in LoopIds :
        /\ (loops[l].cancelled /\ loops'[l] # loops[l])
            => \A s \in SegIds : Submissions(s)' = Submissions(s)
        /\ (Active(l) /\ loops'[l].pc = "idle") => ~isProcessing']_vars

\* C10: an execution performs no poll cycle after the connection was lost.
C10_NoPollAfterDisconnect ==
    [][\A l \in LoopIds :
        (loops[l].cancelled /\ loops[l].pc = "arrival")
            => ~(loops'[l].pc = "arrival" /\ loops'[l].polls > loops[l].polls)]_vars

\* C11: in every reachable state in which no execution of processQueueLoop
\* is active, isProcessing is false: every exit path (drained queue, thrown
\* error, lost connection) clears the flag.
C11_FlagClearWhenNoLoop == (ActiveLoops = {}) => ~isProcessing

\* a loop has run and left: it submitted a segment and ended with segments
\* still queued (a thrown error or a lost connection), and the flag is clear
C11_Witness ==
    /\ ActiveLoops = {}
    /\ ~isProcessing
    /\ queue # <<>>
    /\ \E s \in SegIds : submitted[s].primary > 0

\* the loop has ended with nothing left to do
Drained == queue = <<>> /\ ActiveLoops = {} /\ ~isProcessing

\* C12: with a connection that stays up, an adapter that always succeeds and
\* a buffer that drains, the primary adapter is called exactly once for each
\* queued segment, in queue order, the fallback is never sent, and the loop
\* ends with the queue empty and isProcessing false.
C12_DrainsInOrder ==
    /\ [](\A s \in SegIds :
            /\ submitted[s].fallback = 0
            /\ submitted[s].primary <= 1
            /\ (s < nextSeq /\ ~InQueue(s)) => submitted[s].primary = 1
            /\ \A t \in SegIds : (s < t /\ submitted[t].primary > 0)
                                    => submitted[s].primary > 0)
    /\ ((queue # <<>>) ~> Drained)

\* three segments A, B, C were queued, each was submitted once to the primary
\* adapter and the loop has ended
C12_Witness ==
    /\ Drained
    /\ nextSeq = 4
    /\ \A s \in 1..3 : submitted[s].primary = 1 /\ submitted[s].fallback = 0

\* C13: with an adapter that fails for B only (the segment enqueued second),
\* the fallback is sent exactly once, for B, after B's primary call and while
\* B is still queued; the other segments get the primary call only; the loop
\* still ends with the queue empty.
C13_FallbackOnlyForFailed ==
    /\ [](\A s \in SegIds :
            /\ submitted[s].primary <= 1
            /\ submitted[s].fallback <= submitted[s].primary
            /\ submitted[s].fallback > 0 => FailsFor([seq |-> s])
            /\ (s < nextSeq /\ ~InQueue(s))
                  => /\ submitted[s].primary = 1
                     /\ submitted[s].fallback = IF FailsFor([seq |-> s]) THEN 1 ELSE 0)
    /\ [][\A s \in SegIds :
            submitted'[s].fallback > submitted[s].fallback
                => InQueue(s) /\ submitted[s].primary = 1]_vars
    /\ ((queue # <<>>) ~> Drained)

\* A, B, C were queued; B got the primary call and the fallback, A and C the
\* primary call only, and the loop has ended
C13_Witness ==
    /\ Drained
    /\ nextSeq = 4
    /\ \A s \in 1..3 : submitted[s] = [primary |-> 1, fallback |-> IF s = 2 THEN 1 ELSE 0]

\* C14: when the fallback was tried for the segment a loop holds (also when
\* the send raised an error), the segment is popped from the queue, and on a
\* connection that is up the same execution goes on while segments are queued.
C14_FallbackFailureMovesOn ==
    [][\A l \in LoopIds, s \in SegIds :
        (/\ loops[l].pc = "synth"
         /\ loops[l].seg.seq = s
         /\ submitted'[s].fallback > submitted[s].fallback)
        => /\ ~InQueue(s)'
           /\ (status = "connected" /\ queue' # <<>>) => loops'[l].pc # "idle"]_vars

\* C15: whatever the order of the deliveries from the two channels, no id is
\* accepted twice: every acceptance adds a turn to the log, and no two turns
\* were added for the same id.
C15_EachIdAcceptedOnce ==
    \A i, j \in 1..Len(turns) : i # j => turns[i].id # turns[j].id

\* a delivery of `data`, from the subscription or from the poll
Delivered(data) == PushEvent(data) \/ FetchReturn(data)

\* C16 as stated: a delivered update is rejected exactly when its id equals
\* the last accepted id, whatever its text; an accepted one sets the cell to
\* its id, a rejected one leaves the cell, the log and the queue unchanged.
C16_RejectsExactlyLastId ==
    [][\A data \in Updates : Delivered(data) =>
          IF data.id = lastProcessedId
          THEN UNCHANGED <<lastProcessedId, turns, queue>>
          ELSE lastProcessedId' = data.id]_vars

\* C16 amended: a delivered update is rejected exactly when its text is empty
\* or its id equals the last accepted id; an accepted one sets the cell to
\* its id, a rejected one leaves the cell, the log and the queue unchanged.
C16_RejectsLastIdOrEmptyText ==
    [][\A data \in Updates : Delivered(data) =>
          IF data.empty \/ data.id = lastProcessedId
          THEN UNCHANGED <<lastProcessedId, turns, queue>>
          ELSE lastProcessedId' = data.id /\ Len(turns') = Len(turns) + 1]_vars

\* two updates were accepted, the second with an id other than the last
\* accepted one, and the cell holds the id of the second
C16_Witness ==
    /\ Len(turns) = 2
    /\ turns[1].id # turns[2].id
    /\ lastProcessedId = turns[2].id

IsFiller(e) == e.text = CLEARS_THROAT
NotFiller(text) == text # CLEARS_THROAT
NonEmptyLine(text) == ~Blank(text)

\* the texts appended to the queue by a step
AppendedTexts ==
    [i \in 1..(Len(queue') - Len(queue)) |-> queue'[Len(queue) + i].text]

\* C17: an accepted text with n non-empty lines appends exactly these n
\* segments in line order, plus a filler right after every 3rd segment of the
\* count that runs across all updates: of the elements ever appended, every
\* fourth one, and no other, is the filler.
C17_SegmentsAndFillers ==
    /\ [](\A i \in 1..Len(queue) : IsFiller(queue[i]) <=> queue[i].seq % 4 = 0)
    /\ [][\A data \in Updates, source \in Sources :
            (Accepts(data) /\ lastProcessedId' = data.id /\ PushEventFiller(data, source))
                => SelectSeq(AppendedTexts, NotFiller) = SelectSeq(source, NonEmptyLine)]_vars

\* six segments of more than one update were appended, with two fillers
C17_Witness ==
    /\ paragraphCount = 6
    /\ nextSeq = 9
    /\ Len(turns) >= 2
    /\ \E i \in 1..Len(queue) : IsFiller(queue[i]) /\ queue[i].seq = 8

\* C18: right after segments were appended to an empty queue, and right after
\* the connection was established with a non-empty queue, an execution of
\* processQueueLoop is active if the connection is up.
C18_LoopStartedOnTrigger ==
    [][(/\ \/ queue = <<>> /\ queue' # <<>>
           \/ ~connected /\ connected' /\ queue # <<>>
        /\ status' = "connected")
        => ActiveLoops' # {}]_vars

\* the first segment was appended to the empty queue on an established
\* connection, and the loop it started awaits the synthesis call for it
C18_Witness ==
    /\ status = "connected"
    /\ nextSeq = 2
    /\ queue = <<[seq |-> 1, text |-> "Male 1: hi"]>>
    /\ submitted[1] = [primary |-> 1, fallback |-> 0]
    /\ \E l \in LoopIds : loops[l].pc = "synth" /\ loops[l].seg.seq = 1

\* C19: when the connection was lost while a loop awaited its synthesis call,
\* the step in which the call returns appends no audio to the playback buffer.
C19_ResultDiscardedAfterDisconnect ==
    [][\A l \in LoopIds :
        (loops[l].pc = "synth" /\ loops[l].cancelled /\ loops'[l] # loops[l])
            => buffer'.endOfQueueTime = buffer.endOfQueueTime]_vars

\* C20: while the connection is down, a step removes no segment from the
\* queue.
C20_NoDrainingWhileDisconnected ==
    [][(status = "disconnected" /\ status' = "disconnected")
        => \A s \in SegIds : InQueue(s) => InQueue(s)']_vars

\* C21: when the primary call for a segment fails and the fallback is sent,
\* the arrival wait of that segment does not end with "audio arrived" in the
\* same step: the failed call produced no audio and the fallback request was
\* only just issued, so no audio of the segment's own request is in the
\* playback buffer yet.
C21_ArrivalFromOwnRequest ==
    [][\A l \in LoopIds, s \in SegIds :
        (/\ loops[l].pc = "synth"
         /\ loops[l].seg.seq = s
         /\ submitted'[s].fallback > submitted[s].fallback
         /\ loops'[l].pc # "idle"
         /\ loops'[l].seg.seq = s)
        => ~loops'[l].audioArrived]_vars

\* C22: when an execution of processQueueLoop that has submitted a segment
\* submits the next one, the playback buffer it has just read holds less than
\* 3.0s of audio: no request is issued in a step that observed 3.0s or more.
C22_NextSubmissionBelowLowWater ==
    [][\A l \in LoopIds :
        (/\ loops[l].pc \in {"synth", "arrival", "pipeline"}
         /\ loops'[l].pc = "synth"
         /\ loops'[l].seg.seq # loops[l].seg.seq)
        => buffer'.duration < LOW_WATER_MS]_vars

\* the audio of the first segment arrived and was played, and the loop that
\* submitted it has submitted the second segment
C22_Witness ==
    /\ buffer = [endOfQueueTime |-> AudioChunkMs, duration |-> 0]
    /\ submitted[1] = [primary |-> 1, fallback |-> 0]
    /\ submitted[2] = [primary |-> 1, fallback |-> 0]
    /\ ~InQueue(1)
    /\ \E l \in LoopIds : loops[l].pc = "synth" /\ loops[l].seg.seq = 2

\* C24: the text submitted to the synthesis adapter for a queue element is
\* the element's text annotated with the voice style that was in force when
\* the element was pushed.
C24_SubmittedTextFixedAtEnqueue ==
    [][\A l \in LoopIds, s \in QueuedIds :
        (/\ loops'[l].pc = "synth"
         /\ loops'[l].seg.seq = s
         /\ submitted'[s].primary > submitted[s].primary)
        => loops'[l].scripted = scriptedText(styleAtEnqueue'[s], loops'[l].seg.text)]_vars

\* C25: a step of processNewData (an update is accepted, or its diarized
\* script is enqueued) leaves the elements already queued in place and in
\* order and only adds elements behind them; it sends no fallback request,
\* issues no synthesis request while the processing flag is set, and any
\* synthesis request of the step is the one for the head of the queue made by
\* the execution of processQueueLoop that the step starts.
C25_ProducersOnlyAppend ==
    [][(pending' # pending) =>
        /\ Len(queue') >= Len(queue)
        /\ SubSeq(queue', 1, Len(queue)) = queue
        /\ \A s \in SegIds : submitted'[s].fallback = submitted[s].fallback
        /\ isProcessing => submitted' = submitted
        /\ \A s \in SegIds :
              submitted'[s].primary > submitted[s].primary
              => /\ queue'[1].seq = s
                 /\ \E l \in LoopIds :
                       /\ loops[l].pc = "idle"
                       /\ loops'[l].pc = "synth"
                       /\ loops'[l].seg.seq = s]_vars

\* the script of the second update was enqueued behind the segment of the
\* first one, whose synthesis call the consumer still awaits
C25_Witness ==
    /\ isProcessing
    /\ queue = <<[seq |-> 1, text |-> "Male 1: hi"], [seq |-> 2, text |-> "Male 1: hi"]>>
    /\ pending = <<>>
    /\ Len(turns) = 2
    /\ turns[2].script = 2
    /\ submitted[1] = [primary |-> 1, fallback |-> 0]
    /\ submitted[2] = [primary |-> 0, fallback |-> 0]
    /\ \E l \in LoopIds : loops[l].pc = "synth" /\ loops[l].seg.seq = 1

\* C26: in every reachable state in which an execution of processQueueLoop
\* is active (entered and not yet exited), isProcessing is true.
C26_FlagSetWhileLoopActive == (ActiveLoops # {}) => isProcessing

\* C27: update 1 having been accepted before update 2, no element of the
\* queue that came from update 2 stands before an element that came from
\* update 1.
C27_SegmentsInAcceptanceOrder ==
    \A i, j \in 1..Len(queue) :
        i < j => ~(queue[i].text = SegTextOf(2) /\ queue[j].text = SegTextOf(1))

\* C28: the script stored in a turn of the log is the diarized script of the
\* update the turn was added for (0: the turn still has its source text).
C28_ScriptReplacesOwnTurn ==
    \A k \in 1..Len(turns) : turns[k].script \in {0, turns[k].id}

====
